---- MODULE Spec2Model ----
(***************************************************************************)
(* Claude Dashboard (Hecaton plugin), src/main.js.                         *)
(*                                                                         *)
(* The model follows the event loop of the process: every action is one    *)
(* macrotask (the start of main, the completion of an awaited I/O call, a  *)
(* timer tick, one 'data' chunk on stdin) run up to its next suspension    *)
(* point.  `ev` names the event the last step handled and `out` lists, in  *)
(* order, what that step wrote or tried to paint.                          *)
(***************************************************************************)
EXTENDS Integers, Sequences, FiniteSets, TLC

VARIABLES pc, state, termCols, termRows, inflight, timerArmed, ev, out

vars == <<pc, state, termCols, termRows, inflight, timerArmed, ev, out>>

(***************************************************************************)
(* Bounds of the model.                                                    *)
(***************************************************************************)
MaxInflight == 2
MaxRefreshCount == 2
MaxNow == 1

(***************************************************************************)
(* Program constants.                                                      *)
(***************************************************************************)
MaxBoxWidth == 72
DefaultCols == 80
DefaultRows == 24

Min(a, b) == IF a <= b THEN a ELSE b
Max(a, b) == IF a >= b THEN a ELSE b

\* JavaScript null for the string-valued field state.error
Null == "null"
\* state.lastRefresh == null (Date.now() is never 0, and 0 is as falsy as null)
NoTime == 0

NoCredentials == "No credentials found"
\* 'Failed to fetch: ' + e.message, e being the RangeError of String.repeat
FailedToFetch == "Failed to fetch: Invalid count value"

Owners == {"main", "timer", "key"}
\* the awaits a refresh() call can be suspended at: getCredentials(), and
\* inside fetchUsageLimits fetch() and response.json()
Stages == {"cred", "fetch", "body"}

(***************************************************************************)
(* MetricsSnapshot: null is <<>>, a snapshot is <<[five_hour |-> w, ...]>> *)
(* and each window w is null (<<>>) or <<[utilization |-> n]>>.            *)
(***************************************************************************)
Snapshot(a, b, c) == [five_hour |-> a, seven_day |-> b, seven_day_sonnet |-> c]
Used == <<[utilization |-> 42]>>
\* the bodies the model lets the API send
Snapshots == {Snapshot(<<>>, <<>>, <<>>), Snapshot(<<>>, Used, <<>>),
              Snapshot(Used, <<>>, Used)}
NoData == <<>>

\* the ViewModel of main()
InitialState ==
  [loading |-> TRUE, error |-> Null, data |-> NoData,
   config |-> [plan |-> "max", displayMode |-> "detailed"],
   effort |-> "high", startTime |-> 1, lastRefresh |-> NoTime, refreshCount |-> 0]

\* what loadConfig() and getEffortLevel() can give back
Startups == {[config |-> [plan |-> "max", displayMode |-> "detailed"], effort |-> "high"],
             [config |-> [plan |-> "max", displayMode |-> "compact"], effort |-> "high"]}

(***************************************************************************)
(* Output: one entry per write (or per render call that threw).            *)
(***************************************************************************)
NoLines == <<>>

\* `loading` and `error` are the fields a render() call read from the ViewModel
Entry(ch, kind, view, lines, width, row, col) ==
  [ch |-> ch, kind |-> kind, view |-> view, lines |-> lines,
   width |-> width, startRow |-> row, startCol |-> col,
   loading |-> FALSE, error |-> Null]

\* ansi.showCursor + ansi.reset + ansi.clear on stdout
RestoreEntry == Entry("stdout", "restore", "", NoLines, 0, 0, 0)
\* a render() call that raised RangeError before writing anything
ThrowEntry == Entry("none", "renderThrow", "", NoLines, 0, 0, 0)
\* 'Error: ' + e.message on stderr, from main().catch
ErrorEntry == Entry("stderr", "errorLine", "", NoLines, 0, 0, 0)

\* mutant: the envelope is written to the paint stream
sendRpcOnStdout(method) == <<Entry("stdout", "rpc", method, NoLines, 0, 0, 0)>>

\* sendRpc: the envelope goes to process.stderr
sendRpc(method) == <<Entry("stderr", "rpc", method, NoLines, 0, 0, 0)>>

(***************************************************************************)
(* render(state)                                                           *)
(***************************************************************************)
ViewOf(st) ==
  IF st.error # Null THEN "error" ELSE IF st.loading THEN "loading" ELSE "data"

WindowLine(w, tag) == IF w # <<>> THEN <<tag>> ELSE <<>>

\* mutant: a window the snapshot lacks is listed all the same
RateLimitLinesListsAbsent(data) ==
  IF data # NoData
  THEN LET d == data[1] IN
       <<"5h", "7d", "7d-S">>
       \o (IF d.five_hour = <<>> /\ d.seven_day = <<>> /\ d.seven_day_sonnet = <<>>
           THEN <<"noData">> ELSE <<>>)
  ELSE <<"failedToFetch", "checkCredentials">>

RateLimitLines(data) ==
  IF data # NoData
  THEN LET d == data[1] IN
       WindowLine(d.five_hour, "5h") \o WindowLine(d.seven_day, "7d")
       \o WindowLine(d.seven_day_sonnet, "7d-S")
       \o (IF d.five_hour = <<>> /\ d.seven_day = <<>> /\ d.seven_day_sonnet = <<>>
           THEN <<"noData">> ELSE <<>>)
  ELSE <<"failedToFetch", "checkCredentials">>

ViewLines(st) ==
  <<"blank", "title", "blank">>
  \o (IF st.error # Null THEN <<"error", "blank", "hint">>
      ELSE IF st.loading THEN <<"loading">>
      ELSE <<"model", "blank", "rateLimitsHeader", "separator">>
           \o RateLimitLines(st.data)
           \o <<"blank", "sessionHeader", "separator", "uptime">>
           \o (IF st.lastRefresh # NoTime THEN <<"lastUpdate">> ELSE <<>>)
           \o <<"blank", "accountHeader", "separator", "plan",
                "blank", "separator", "keys">>)
  \o <<"blank">>

\* String.prototype.repeat raises RangeError on a negative count:
\* drawSeparator(width - 3) repeats width - 5 times (data view only),
\* drawBox repeats width - 2 times.
RenderThrows(st, cols) ==
  LET width == Min(cols, MaxBoxWidth) IN
  \/ (ViewOf(st) = "data" /\ width - 5 < 0)
  \/ width - 2 < 0

Render(st, cols, rows) ==
  LET width == Min(cols, MaxBoxWidth)
      lines == ViewLines(st)
      boxed == Len(lines) + 2
      startRow == Max(1, (rows - boxed) \div 2)
      startCol == Max(1, (cols - width) \div 2)
      paint == Entry("stdout", "paint", ViewOf(st), lines, width, startRow, startCol)
  IN IF RenderThrows(st, cols)
     THEN [threw |-> TRUE,
           writes |-> <<[ThrowEntry EXCEPT !.loading = st.loading, !.error = st.error]>>]
     ELSE [threw |-> FALSE,
           writes |-> <<[paint EXCEPT !.loading = st.loading, !.error = st.error]>>]


(***************************************************************************)
(* refresh(): the three synchronous stretches of the async function.       *)
(* Each gives the ViewModel it leaves, what it wrote, and whether the      *)
(* promise of refresh() was rejected by an exception that escaped it.      *)
(***************************************************************************)
Effect(st, writes, rejected) == [state |-> st, out |-> writes, rejected |-> rejected]

\* catch (e) { state.error = 'Failed to fetch: ' + ...; state.loading = false; render(state) }
CatchBlock(st, cols, rows) ==
  LET s == [st EXCEPT !.error = FailedToFetch, !.loading = FALSE]
      r == Render(s, cols, rows)
  IN Effect(s, r.writes, r.threw)

\* render(state) inside the try block
TryRender(st, cols, rows) ==
  LET r == Render(st, cols, rows) IN
  IF r.threw
  THEN LET c == CatchBlock(st, cols, rows) IN Effect(c.state, r.writes \o c.out, c.rejected)
  ELSE Effect(st, r.writes, FALSE)

\* mutant: the new cycle forgets to clear the error of the last one
RefreshBeginKeepsError(st, cols, rows) ==
  LET s == [st EXCEPT !.loading = TRUE]
      r == Render(s, cols, rows)
  IN Effect(s, r.writes, r.threw)

\* state.loading = true; state.error = null; render(state)  -- outside the try
RefreshBegin(st, cols, rows) ==
  LET s == [st EXCEPT !.loading = TRUE, !.error = Null]
      r == Render(s, cols, rows)
  IN Effect(s, r.writes, r.threw)

\* if (!token) { state.error = ...; state.loading = false; render(state); return }
RefreshNoToken(st, cols, rows) ==
  TryRender([st EXCEPT !.error = NoCredentials, !.loading = FALSE], cols, rows)

\* state.data = data; state.loading = false; state.lastRefresh = Date.now();
\* state.refreshCount++; render(state)
RefreshComplete(st, data, t, cols, rows) ==
  TryRender([st EXCEPT !.data = data, !.loading = FALSE,
                       !.lastRefresh = t, !.refreshCount = @ + 1], cols, rows)

(***************************************************************************)
(* The refresh() calls in flight: how many of each caller are suspended at *)
(* each await.                                                             *)
(***************************************************************************)
NoneInFlight == [o \in Owners |-> [s \in Stages |-> 0]]

InflightAt(s) == inflight["main"][s] + inflight["timer"][s] + inflight["key"][s]
InflightTotal == InflightAt("cred") + InflightAt("fetch") + InflightAt("body")

Enter(f, o, s) == [f EXCEPT ![o][s] = @ + 1]
Leave(f, o, s) == [f EXCEPT ![o][s] = @ - 1]

Running == pc \in {"initialRefresh", "running"}

\* room for one more refresh() within the bounds of the model
MayStart ==
  /\ InflightTotal < MaxInflight
  /\ state.refreshCount + InflightTotal < MaxRefreshCount

(***************************************************************************)
(* What becomes of a rejected refresh() promise, by caller:                *)
(*   main  - `await refresh()` in main(): main().catch prints and exit(1)  *)
(*   timer - refresh().catch(() => {}): dropped                            *)
(*   key   - `await refresh()` in the async 'data' listener: an unhandled  *)
(*           rejection, which ends the process with code 1                 *)
(***************************************************************************)
UncaughtEntry == Entry("stderr", "uncaught", "", NoLines, 0, 0, 0)

RejectWrites(owner) ==
  CASE owner = "main" -> <<ErrorEntry>>
    [] owner = "timer" -> <<>>
    [] owner = "key" -> <<UncaughtEntry>>

PcAfter(owner, rejected) ==
  IF rejected
  THEN (IF owner = "timer" THEN pc ELSE "exit1")
  ELSE (IF owner = "main" THEN "running" ELSE pc)

\* setInterval(...) runs when `await refresh()` of main() returns
TimerAfter(owner, rejected) ==
  IF owner = "main" /\ ~rejected THEN TRUE ELSE timerArmed

NoChunk == [sentinel |-> FALSE, text |-> <<>>, wellFormed |-> FALSE,
            json |-> [type |-> "null", method |-> "",
                      params |-> [truthy |-> FALSE, hasCols |-> FALSE, cols |-> 0,
                                  hasRows |-> FALSE, rows |-> 0]]]

Event(kind, owner, result, chunk) ==
  [kind |-> kind, owner |-> owner, result |-> result, chunk |-> chunk]

\* a refresh() call ends (returns or throws) at stage s
Finish(owner, s, eff, result) ==
  /\ state' = eff.state
  /\ out' = eff.out \o (IF eff.rejected THEN RejectWrites(owner) ELSE <<>>)
  /\ inflight' = Leave(inflight, owner, s)
  /\ pc' = PcAfter(owner, eff.rejected)
  /\ timerArmed' = TimerAfter(owner, eff.rejected)
  /\ ev' = Event(s, owner, result, NoChunk)
  /\ UNCHANGED <<termCols, termRows>>

\* a refresh() call moves from one await to the next
Advance(owner, from, to, result) ==
  /\ inflight' = Enter(Leave(inflight, owner, from), owner, to)
  /\ ev' = Event(from, owner, result, NoChunk)
  /\ out' = <<>>
  /\ UNCHANGED <<pc, state, termCols, termRows, timerArmed>>

\* refresh() is called by `owner`: runs to `await getCredentials()`
StartRefresh(owner, kind, chunk) ==
  LET eff == RefreshBegin(state, termCols, termRows) IN
  /\ state' = eff.state
  /\ out' = eff.out \o (IF eff.rejected THEN RejectWrites(owner) ELSE <<>>)
  /\ inflight' = IF eff.rejected THEN inflight ELSE Enter(inflight, owner, "cred")
  /\ pc' = IF eff.rejected /\ owner # "timer" THEN "exit1" ELSE pc
  /\ ev' = Event(kind, owner, "", chunk)
  /\ UNCHANGED <<termCols, termRows, timerArmed>>


(***************************************************************************)
(* Inbound chunks on stdin.  A chunk is the string handed to the 'data'    *)
(* listener: `sentinel` says whether it starts with '__HECA_RPC__', `text` *)
(* is its characters when it does not, and for an envelope `wellFormed`    *)
(* and `json` say what JSON.parse makes of the rest.                       *)
(***************************************************************************)
NoParams == [truthy |-> FALSE, hasCols |-> FALSE, cols |-> 0, hasRows |-> FALSE, rows |-> 0]
EmptyParams == [NoParams EXCEPT !.truthy = TRUE]

KeyChunk(text) == [NoChunk EXCEPT !.text = text]
Envelope(method, params) ==
  [sentinel |-> TRUE, text |-> <<>>, wellFormed |-> TRUE,
   json |-> [type |-> "object", method |-> method, params |-> params]]
\* '__HECA_RPC__' followed by text JSON.parse rejects
MalformedEnvelope == [NoChunk EXCEPT !.sentinel = TRUE]
\* '__HECA_RPC__null': parses, and reading .method of null raises TypeError
NullEnvelope == [NoChunk EXCEPT !.sentinel = TRUE, !.wellFormed = TRUE]

Absent == -1
\* the <<cols, rows>> of the resize envelopes the model lets the host send
SizesGiven == {<<Absent, Absent>>, <<0, 5>>, <<1, Absent>>, <<4, 0>>,
               <<DefaultCols, DefaultRows>>}

ResizeParams(c, r) ==
  [truthy |-> TRUE, hasCols |-> c # Absent, cols |-> IF c = Absent THEN 0 ELSE c,
   hasRows |-> r # Absent, rows |-> IF r = Absent THEN 0 ELSE r]

KeyChars == {"r", "R", "q", "Q", "1", "2", "3", "x"}
KeyChunks == {KeyChunk(<<k>>) : k \in KeyChars}
               \cup {KeyChunk(<<"1", "2">>), KeyChunk(<<"x", "r">>)}
ResizeChunks == {Envelope("resize", ResizeParams(z[1], z[2])) : z \in SizesGiven}
OtherEnvelopes == {MalformedEnvelope, NullEnvelope, Envelope("close", EmptyParams),
                   Envelope("resize", NoParams)}
Chunks == KeyChunks \cup ResizeChunks \cup OtherEnvelopes

(***************************************************************************)
(* The 'data' listener.  A handler effect: the ViewModel and terminal size *)
(* it leaves, its writes, whether an exception escaped the async listener, *)
(* whether it cleared the interval, whether it called refresh().           *)
(***************************************************************************)
HEffect(st, cols, rows, writes, crashed, stopTimer, callsRefresh) ==
  [state |-> st, cols |-> cols, rows |-> rows, out |-> writes, crashed |-> crashed,
   stopTimer |-> stopTimer, callsRefresh |-> callsRefresh]

Ignored(st, cols, rows) == HEffect(st, cols, rows, <<>>, FALSE, FALSE, FALSE)

\* mutant: a plain assignment, which lets a zero through
OrPriorAssigns(has, given, prior) == IF has THEN given ELSE prior

\* termCols = json.params.cols || termCols
OrPrior(has, given, prior) == IF has /\ given # 0 THEN given ELSE prior

\* mutant: every envelope that parses to an object is taken for a resize
HandleRpcAnyMethod(chunk, st, cols, rows) ==
  IF ~chunk.wellFormed \/ chunk.json.type = "null"
  THEN Ignored(st, cols, rows)
  ELSE LET p == chunk.json.params
           c == OrPrior(p.hasCols, p.cols, cols)
           r == OrPrior(p.hasRows, p.rows, rows)
       IN HEffect(st, c, r, Render(st, c, r).writes, FALSE, FALSE, FALSE)

\* the `key.startsWith('__HECA_RPC__')` branch; its try/catch swallows
\* JSON.parse errors, the TypeError on null and a RangeError of render
HandleRpc(chunk, st, cols, rows) ==
  IF ~chunk.wellFormed \/ chunk.json.type = "null"
  THEN Ignored(st, cols, rows)
  ELSE IF chunk.json.method = "resize" /\ chunk.json.params.truthy
  THEN LET p == chunk.json.params
           c == OrPrior(p.hasCols, p.cols, cols)
           r == OrPrior(p.hasRows, p.rows, rows)
       IN HEffect(st, c, r, Render(st, c, r).writes, FALSE, FALSE, FALSE)
  ELSE Ignored(st, cols, rows)

\* mutant: the mode is stored and the repaint forgotten
SetDisplayModeNoRender(mode, st, cols, rows) ==
  HEffect([st EXCEPT !.config.displayMode = mode], cols, rows, <<>>, FALSE, FALSE, FALSE)

\* state.config.displayMode = mode; render(state)
SetDisplayMode(mode, st, cols, rows) ==
  LET s == [st EXCEPT !.config.displayMode = mode]
      r == Render(s, cols, rows)
  IN HEffect(s, cols, rows, r.writes, r.threw, FALSE, FALSE)

\* cleanup(): clearInterval(autoRefreshInterval); stdout.write(showCursor + reset + clear)
cleanup == [stopTimer |-> TRUE, out |-> <<RestoreEntry>>]

\* case 'q': case 'Q': cleanup(); sendRpc('close')
Quit(st, cols, rows) ==
  HEffect(st, cols, rows, cleanup.out \o sendRpc("close"), FALSE, cleanup.stopTimer, FALSE)

\* switch (key): the whole chunk is compared with each one-character case
KeySwitch(chunk, st, cols, rows) ==
  CASE chunk.text \in {<<"r">>, <<"R">>} -> HEffect(st, cols, rows, <<>>, FALSE, FALSE, TRUE)
    [] chunk.text \in {<<"q">>, <<"Q">>} -> Quit(st, cols, rows)
    [] chunk.text = <<"1">> -> SetDisplayMode("compact", st, cols, rows)
    [] chunk.text = <<"2">> -> SetDisplayMode("normal", st, cols, rows)
    [] chunk.text = <<"3">> -> SetDisplayMode("detailed", st, cols, rows)
    [] OTHER -> Ignored(st, cols, rows)

StdinHandler(chunk, st, cols, rows) ==
  IF chunk.sentinel THEN HandleRpc(chunk, st, cols, rows)
  ELSE KeySwitch(chunk, st, cols, rows)

(***************************************************************************)
(* Fetch outcomes: fetchUsageLimits gives null for everything but a parsed *)
(* body of a response with an ok status.                                   *)
(***************************************************************************)
ResponseKinds == {"ok", "status", "network", "timeout"}
NoWindows == [five_hour |-> <<>>, seven_day |-> <<>>, seven_day_sonnet |-> <<>>]
\* a body response.json() rejects, or one it parses
NoBody == [parses |-> FALSE, json |-> NoWindows]
Bodies == {NoBody}
            \cup {[parses |-> TRUE, json |-> s] : s \in Snapshots}

\* the value fetchUsageLimits resolves to: null from the catch block or
\* from `if (!response.ok)`, else the three windows of the parsed body
fetchUsageLimits(kind, body) ==
  IF kind = "ok" /\ body.parses
  THEN <<[five_hour |-> body.json.five_hour, seven_day |-> body.json.seven_day,
          seven_day_sonnet |-> body.json.seven_day_sonnet]>>
  ELSE NoData

(***************************************************************************)
(* Actions                                                                 *)
(***************************************************************************)
Init ==
  /\ pc = "start"
  /\ state = InitialState
  /\ termCols = DefaultCols
  /\ termRows = DefaultRows
  /\ inflight = NoneInFlight
  /\ timerArmed = FALSE
  /\ ev = Event("none", "main", "", NoChunk)
  /\ out = <<>>

\* main(): the initial render, up to `await loadConfig()`
MainStart ==
  /\ pc = "start"
  /\ LET r == Render(state, termCols, termRows) IN
     /\ out' = r.writes \o (IF r.threw THEN <<ErrorEntry>> ELSE <<>>)
     /\ pc' = IF r.threw THEN "exit1" ELSE "loadConfig"
  /\ ev' = Event("start", "main", "", NoChunk)
  /\ UNCHANGED <<state, termCols, termRows, inflight, timerArmed>>

\* mutant: main calls refresh() without awaiting it and goes on to arm the
\* timer and attach the stdin listener
ConfigLoadedNotAwaited(su) ==
  /\ pc = "loadConfig"
  /\ LET s == [state EXCEPT !.config = su.config, !.effort = su.effort]
         b == RefreshBegin(s, termCols, termRows)
     IN /\ state' = b.state
        /\ out' = b.out \o (IF b.rejected THEN RejectWrites("main") ELSE <<>>)
        /\ inflight' = IF b.rejected THEN inflight ELSE Enter(inflight, "main", "cred")
        /\ pc' = IF b.rejected THEN "exit1" ELSE "running"
        /\ timerArmed' = ~b.rejected
  /\ ev' = Event("config", "main", "", NoChunk)
  /\ UNCHANGED <<termCols, termRows>>

\* loadConfig() and getEffortLevel() return; main calls refresh()
ConfigLoaded(su) ==
  /\ pc = "loadConfig"
  /\ LET s == [state EXCEPT !.config = su.config, !.effort = su.effort]
         b == RefreshBegin(s, termCols, termRows)
     IN /\ state' = b.state
        /\ out' = b.out \o (IF b.rejected THEN RejectWrites("main") ELSE <<>>)
        /\ inflight' = IF b.rejected THEN inflight ELSE Enter(inflight, "main", "cred")
        /\ pc' = IF b.rejected THEN "exit1" ELSE "initialRefresh"
  /\ ev' = Event("config", "main", "", NoChunk)
  /\ UNCHANGED <<termCols, termRows, timerArmed>>

\* `await getCredentials()` returns
CredDone(owner, hasToken) ==
  /\ Running
  /\ inflight[owner]["cred"] > 0
  /\ IF hasToken
     THEN Advance(owner, "cred", "fetch", "token")
     ELSE Finish(owner, "cred", RefreshNoToken(state, termCols, termRows), "none")

\* Date.now(): a clock that does not run backwards
Clock(st) == {t \in 1..MaxNow : t >= st.lastRefresh}

\* `await fetchUsageLimits(token)` returns: the response failed (bad status,
\* network error, abort at 5 s), or its body was read and parsed or not
FetchDone(owner, kind, body, t) ==
  /\ Running
  /\ inflight[owner]["fetch"] > 0
  /\ kind = "ok" \/ body = NoBody
  /\ Finish(owner, "fetch",
            RefreshComplete(state, fetchUsageLimits(kind, body), t, termCols, termRows),
            IF kind # "ok" THEN kind ELSE IF body.parses THEN "parsed" ELSE "malformed")

\* the 60-second interval fires
TimerTick ==
  /\ pc = "running"
  /\ timerArmed
  /\ MayStart
  /\ StartRefresh("timer", "timer", NoChunk)

\* one chunk arrives on stdin
StdinData(chunk) ==
  /\ pc = "running"
  /\ LET h == StdinHandler(chunk, state, termCols, termRows) IN
     IF h.callsRefresh
     THEN MayStart /\ StartRefresh("key", "stdin", chunk)
     ELSE /\ state' = h.state
          /\ termCols' = h.cols
          /\ termRows' = h.rows
          /\ out' = h.out \o (IF h.crashed THEN <<UncaughtEntry>> ELSE <<>>)
          /\ pc' = IF h.crashed THEN "exit1" ELSE pc
          /\ timerArmed' = IF h.stopTimer THEN FALSE ELSE timerArmed
          /\ ev' = Event("stdin", "key", "", chunk)
          /\ UNCHANGED <<inflight>>

Signals == {"SIGTERM", "SIGINT"}

\* process.exit(): the process image, with its ViewModel and its pending
\* refresh() calls, is gone
ProcessGone ==
  /\ state' = InitialState
  /\ inflight' = NoneInFlight
  /\ termCols' = DefaultCols
  /\ termRows' = DefaultRows

\* process.on(sig, () => { cleanup(); process.exit(0) }) once main() has
\* installed it; before that a signal has its default disposition and ends
\* the process at once
Signal(sig) ==
  /\ pc \in {"start", "loadConfig", "initialRefresh", "running"}
  /\ IF pc = "running"
     THEN /\ timerArmed' = (IF cleanup.stopTimer THEN FALSE ELSE timerArmed)
          /\ out' = cleanup.out
          /\ pc' = "exit0"
     ELSE /\ out' = <<>>
          /\ pc' = "killed"
          /\ UNCHANGED timerArmed
  /\ ev' = Event(sig, "main", IF pc = "running" /\ ~timerArmed THEN "afterQuit" ELSE "", NoChunk)
  /\ ProcessGone

\* process.stdin.on('end', () => { cleanup(); process.exit(0) }): the stream
\* flows, and can end, only after process.stdin.resume()
StdinEnd ==
  /\ pc = "running"
  /\ timerArmed' = (IF cleanup.stopTimer THEN FALSE ELSE timerArmed)
  /\ out' = cleanup.out
  /\ pc' = "exit0"
  /\ ev' = Event("end", "main", IF ~timerArmed THEN "afterQuit" ELSE "", NoChunk)
  /\ ProcessGone

Next ==
  \/ MainStart
  \/ \E su \in Startups : ConfigLoaded(su)
  \/ \E o \in Owners, t \in BOOLEAN : CredDone(o, t)
  \/ \E o \in Owners, k \in ResponseKinds, b \in Bodies, t \in Clock(state) :
       FetchDone(o, k, b, t)
  \/ TimerTick
  \/ \E c \in Chunks : StdinData(c)
  \/ \E sig \in Signals : Signal(sig)
  \/ StdinEnd

Spec == Init /\ [][Next]_vars


(***************************************************************************)
(* SpecFetch: the same process with fetchUsageLimits followed await by     *)
(* await.  setTimeout(() => controller.abort(), 5000) is armed from the    *)
(* call of fetch() until clearTimeout(timeout), which runs as soon as      *)
(* fetch() has resolved with the response, before response.json().         *)
(***************************************************************************)
\* the 5-second timer fires: controller.abort() rejects the pending fetch(),
\* the catch block of fetchUsageLimits returns null
Abort(owner, t) ==
  /\ Running
  /\ inflight[owner]["fetch"] > 0
  /\ Finish(owner, "fetch",
            RefreshComplete(state, fetchUsageLimits("timeout", NoBody), t,
                            termCols, termRows), "timeout")

\* `await fetch(...)` resolves with a response or rejects with a network
\* error; clearTimeout(timeout); a response that is not ok returns null
ResponseDone(owner, kind, t) ==
  /\ Running
  /\ inflight[owner]["fetch"] > 0
  /\ kind \in {"ok", "status", "network"}
  /\ IF kind = "ok"
     THEN Advance(owner, "fetch", "body", kind)
     ELSE Finish(owner, "fetch",
                 RefreshComplete(state, fetchUsageLimits(kind, NoBody), t,
                                 termCols, termRows), kind)

\* `await response.json()` resolves, or rejects on a body that is cut off
\* or is not JSON
BodyDone(owner, body, t) ==
  /\ Running
  /\ inflight[owner]["body"] > 0
  /\ Finish(owner, "body",
            RefreshComplete(state, fetchUsageLimits("ok", body), t, termCols, termRows),
            IF body.parses THEN "parsed" ELSE "malformed")

NextFetch ==
  \/ MainStart
  \/ \E su \in Startups : ConfigLoaded(su)
  \/ \E o \in Owners, tok \in BOOLEAN : CredDone(o, tok)
  \/ \E o \in Owners, k \in ResponseKinds, t \in Clock(state) : ResponseDone(o, k, t)
  \/ \E o \in Owners, t \in Clock(state) : Abort(o, t)
  \/ \E o \in Owners, b \in Bodies, t \in Clock(state) : BodyDone(o, b, t)
  \/ TimerTick
  \/ StdinData(KeyChunk(<<"r">>))

SpecFetch == Init /\ [][NextFetch]_vars

(***************************************************************************)
(* Number arithmetic of progressBar.  A JavaScript Number is an IEEE 754   *)
(* binary64: a positive value is held as its 53-bit significand `bits`     *)
(* (most significant bit first, which is 1) and `exp`, the power of two    *)
(* the last bit stands for.  Every operation gives the exact result        *)
(* rounded to the nearest such value, ties to the even significand.        *)
(***************************************************************************)
MantissaBits == 53

Double(bits, exp) == [bits |-> bits, exp |-> exp]
Zero == Double(<<>>, 0)

RECURSIVE ToInt(_)
ToInt(bits) ==
  IF bits = <<>> THEN 0
  ELSE 2 * ToInt(SubSeq(bits, 1, Len(bits) - 1)) + bits[Len(bits)]

RECURSIVE ToBits(_)
ToBits(n) == IF n = 0 THEN <<>> ELSE Append(ToBits(n \div 2), n % 2)

AllZero(bits) == \A i \in 1..Len(bits) : bits[i] = 0

\* bits + 1; one bit longer when every bit was 1
RECURSIVE Increment(_)
Increment(bits) ==
  IF bits = <<>> THEN <<1>>
  ELSE IF bits[Len(bits)] = 0 THEN [bits EXCEPT ![Len(bits)] = 1]
  ELSE Append(Increment(SubSeq(bits, 1, Len(bits) - 1)), 0)

\* The exact value is `bits` (53 bits or more, the last standing for 2^exp)
\* plus a remainder below one unit of the last bit: `rest` tells whether the
\* remainder is zero, below, equal to or above half of that unit.
RoundToDouble(bits, exp, rest) ==
  LET kept == SubSeq(bits, 1, MantissaBits)
      tail == SubSeq(bits, MantissaBits + 1, Len(bits))
      cls == IF tail = <<>> THEN rest
             ELSE IF tail[1] = 0
                  THEN (IF AllZero(tail) /\ rest = "zero" THEN "zero" ELSE "below")
                  ELSE (IF AllZero(Tail(tail)) /\ rest = "zero" THEN "half" ELSE "above")
      up == cls = "above" \/ (cls = "half" /\ kept[MantissaBits] = 1)
      sum == IF up THEN Increment(kept) ELSE kept
      e == exp + (Len(bits) - MantissaBits)
  IN IF Len(sum) > MantissaBits
     THEN Double(SubSeq(sum, 1, MantissaBits), e + 1)
     ELSE Double(sum, e)

\* binary long division of r / den, the next quotient bit standing for 2^exp
RECURSIVE LongDivision(_, _, _, _)
LongDivision(r, den, bits, exp) ==
  LET b == IF r >= den THEN 1 ELSE 0
      rem == 2 * (r - b * den)
  IN IF bits = <<>> /\ b = 0 THEN LongDivision(rem, den, bits, exp - 1)
     ELSE IF Len(bits) + 1 = MantissaBits
          THEN RoundToDouble(Append(bits, b), exp,
                             IF rem = 0 THEN "zero" ELSE IF rem < den THEN "below"
                             ELSE IF rem = den THEN "half" ELSE "above")
          ELSE LongDivision(rem, den, Append(bits, b), exp - 1)

\* num / den for integers 0 <= num < 2 * den
Divide(num, den) == IF num = 0 THEN Zero ELSE LongDivision(num, den, <<>>, 0)

\* bits * n + carry, exactly
RECURSIVE TimesBits(_, _, _)
TimesBits(bits, n, carry) ==
  IF bits = <<>> THEN ToBits(carry)
  ELSE LET t == bits[Len(bits)] * n + carry
           front == SubSeq(bits, 1, Len(bits) - 1)
       IN IF t % 2 = 0 THEN Append(TimesBits(front, n, t \div 2), 0)
          ELSE Append(TimesBits(front, n, t \div 2), 1)

\* x * n for an integer n >= 0
Times(x, n) ==
  IF x = Zero \/ n = 0 THEN Zero
  ELSE RoundToDouble(TimesBits(x.bits, n, 0), x.exp, "zero")

\* Math.round of a value below 2^53: floor(x + 0.5), the sum taken exactly
MathRound(x) ==
  IF x = Zero THEN 0
  ELSE LET n == MantissaBits + x.exp
       IN (IF n >= 1 THEN ToInt(SubSeq(x.bits, 1, n)) ELSE 0)
          + (IF n >= 0 /\ n < MantissaBits THEN x.bits[n + 1] ELSE 0)

(***************************************************************************)
(* progressBar, colorForPercent and formatDuration.  A bar is the sequence *)
(* of its cells, a duration text the sequence of its number-unit parts.    *)
(***************************************************************************)
colorForPercent(pct) ==
  IF pct <= 50 THEN "green" ELSE IF pct <= 80 THEN "yellow" ELSE "red"

\* String.prototype.repeat for a count >= 0
Repeat(cell, count) == [i \in 1..count |-> cell]

Cell(glyph, style) == [glyph |-> glyph, style |-> style]

progressBar(percent, width) ==
  LET filled == MathRound(Times(Divide(percent, 100), width))
      empty == width - filled
      color == colorForPercent(percent)
  IN Repeat(Cell("full", color), filled) \o Repeat(Cell("empty", "dim"), empty)

(***************************************************************************)
(* SpecBar: progressBar as a function of its arguments, which `state`      *)
(* holds; `out` receives the bar.                                          *)
(***************************************************************************)
MaxBarWidth == 25

Percents == 0..100

InitBar ==
  /\ pc = "progressBar"
  /\ state \in [percent : Percents, width : 0..MaxBarWidth]
  /\ termCols = DefaultCols
  /\ termRows = DefaultRows
  /\ inflight = NoneInFlight
  /\ timerArmed = FALSE
  /\ ev = Event("none", "main", "", NoChunk)
  /\ out = <<>>

CallProgressBar ==
  /\ pc = "progressBar"
  /\ pc' = "bar"
  /\ out' = progressBar(state.percent, state.width)
  /\ ev' = Event("progressBar", "main", "", NoChunk)
  /\ UNCHANGED <<state, termCols, termRows, inflight, timerArmed>>

NextBar == CallProgressBar

SpecBar == InitBar /\ [][NextBar]_vars

(***************************************************************************)
(* SpecDuration: formatDuration as a function of its argument, which       *)
(* `state` holds; `out` receives the text.                                 *)
(***************************************************************************)
Part(n, unit) == [n |-> n, unit |-> unit]

\* mutant: the minutes are printed after the hours even when they are 0
formatDurationZeroMinutes(ms) ==
  LET totalSec == ms \div 1000
      hours == totalSec \div 3600
      minutes == (totalSec % 3600) \div 60
  IN IF hours > 0
     THEN <<Part(hours, "h"), Part(minutes, "m")>>
     ELSE <<Part(minutes, "m")>>

formatDuration(ms) ==
  LET totalSec == ms \div 1000
      hours == totalSec \div 3600
      minutes == (totalSec % 3600) \div 60
  IN IF hours > 0
     THEN <<Part(hours, "h")>> \o (IF minutes > 0 THEN <<Part(minutes, "m")>> ELSE <<>>)
     ELSE <<Part(minutes, "m")>>

MaxHours == 2

\* whole hours, minutes and seconds, and the last millisecond before the next
Durations ==
  {((h * 60 + m) * 60 + sec) * 1000 + r :
     h \in 0..MaxHours, m \in 0..59, sec \in {0, 59}, r \in {0, 999}}

InitDuration ==
  /\ pc = "formatDuration"
  /\ state \in [ms : Durations]
  /\ termCols = DefaultCols
  /\ termRows = DefaultRows
  /\ inflight = NoneInFlight
  /\ timerArmed = FALSE
  /\ ev = Event("none", "main", "", NoChunk)
  /\ out = <<>>

CallFormatDuration ==
  /\ pc = "formatDuration"
  /\ pc' = "duration"
  /\ out' = formatDuration(state.ms)
  /\ ev' = Event("formatDuration", "main", "", NoChunk)
  /\ UNCHANGED <<state, termCols, termRows, inflight, timerArmed>>

NextDuration == CallFormatDuration

SpecDuration == InitDuration /\ [][NextDuration]_vars

(***************************************************************************)
(* SpecView: render as a function of the ViewModel and the terminal size.  *)
(* The ViewModel and the size are drawn at the start; the body of the API  *)
(* response is a list of fields in the order they arrived, read by name.   *)
(***************************************************************************)
WindowNames == {"five_hour", "seven_day", "seven_day_sonnet"}

\* the bodies: every choice of windows, in every order of arrival
FieldLists ==
  {f \in UNION {[1..n -> WindowNames] : n \in 0..3} :
     \A i, j \in DOMAIN f : i # j => f[i] # f[j]}

\* data.<name> ?? null
FieldOf(fields, name) ==
  IF \E i \in DOMAIN fields : fields[i] = name THEN Used ELSE <<>>

\* response.json() of a body with these fields
ParsedBody(fields) ==
  [parses |-> TRUE,
   json |-> [five_hour |-> FieldOf(fields, "five_hour"),
             seven_day |-> FieldOf(fields, "seven_day"),
             seven_day_sonnet |-> FieldOf(fields, "seven_day_sonnet")]]

ViewData == {NoData} \cup {fetchUsageLimits("ok", ParsedBody(f)) : f \in FieldLists}
ViewErrors == {Null, NoCredentials, FailedToFetch}
ViewCols == {1, 2, 4, 5, 40, MaxBoxWidth, DefaultCols, 100}
ViewRows == {1, 5, DefaultRows, 40}

InitView ==
  /\ pc = "view"
  /\ \E l \in BOOLEAN, e \in ViewErrors, d \in ViewData, t \in {NoTime, 1} :
       state = [InitialState EXCEPT !.loading = l, !.error = e, !.data = d,
                                    !.lastRefresh = t]
  /\ termCols \in ViewCols
  /\ termRows \in ViewRows
  /\ inflight = NoneInFlight
  /\ timerArmed = FALSE
  /\ ev = Event("none", "main", "", NoChunk)
  /\ out = <<>>

\* one call of render(state)
RenderView ==
  /\ pc = "view"
  /\ out' = Render(state, termCols, termRows).writes
  /\ pc' = "viewed"
  /\ ev' = Event("render", "main", "", NoChunk)
  /\ UNCHANGED <<state, termCols, termRows, inflight, timerArmed>>

NextView == RenderView

SpecView == InitView /\ [][NextView]_vars

(***************************************************************************)
(* Properties                                                              *)
(***************************************************************************)
Exited == pc \in {"exit0", "exit1", "killed"}

IsKey(e, k) == e.kind \in {"stdin"} /\ ~e.chunk.sentinel /\ e.chunk.text = <<k>>
FetchFailures == {"timeout", "network", "status", "malformed"}
ProgressBarTags == {"5h", "7d", "7d-S"}
HasTag(lines, tags) == \E i \in DOMAIN lines : lines[i] \in tags

\* C1: at most one refresh is in flight at any time (a trigger that arrives
\* while a refresh is suspended at the credential lookup or at the fetch
\* starts no second one).
C1_AtMostOneInFlight == InflightTotal <= 1

\* C2: refreshCount changes only by +1 and only when a cycle's fetch step
\* completes, and never once per trigger: when a completion raises it, no
\* other refresh, started by a trigger during that cycle, is waiting at its
\* own fetch to raise it again.
C2_CountPerCycle ==
  [][state'.refreshCount # state.refreshCount =>
       /\ state'.refreshCount = state.refreshCount + 1
       /\ ev'.kind = "fetch"
       /\ InflightAt("fetch") = 1]_vars

\* C3: a cycle whose credential lookup yields nothing ends with
\* error = "No credentials found" and loading = false, and its repaint is
\* the error view (error line, hint line, no progress bars).
C3_NoCredentialOutcome ==
  (ev.kind = "cred" /\ ev.result = "none") =>
    /\ state.error = NoCredentials
    /\ ~state.loading
    /\ Len(out) = 1
    /\ out[1].kind = "paint"
    /\ out[1].view = "error"
    /\ HasTag(out[1].lines, {"hint"})
    /\ ~HasTag(out[1].lines, ProgressBarTags)

\* C4: a cycle whose fetch fails (timeout, network error, bad status,
\* malformed body) ends as 'no data': loading = false, error = null,
\* metrics = null, lastRefreshAt set, the data view with the 'failed to
\* fetch' hint painted, and the process still running.
C4_FetchFailureIsNoData ==
  (ev.kind = "fetch" /\ ev.result \in FetchFailures) =>
    /\ ~state.loading
    /\ state.error = Null
    /\ state.data = NoData
    /\ state.lastRefresh # NoTime
    /\ Len(out) = 1
    /\ out[1].kind = "paint"
    /\ out[1].view = "data"
    /\ HasTag(out[1].lines, {"failedToFetch"})
    /\ ~Exited

\* C5: loading = true and error # null never hold together, neither in a
\* state between two events nor in the ViewModel a render() call reads.
C5_LoadingExcludesError ==
  /\ ~(state.loading /\ state.error # Null)
  /\ \A i \in DOMAIN out : ~(out[i].loading /\ out[i].error # Null)

\* C5 witness: one cycle has set the error while another is still in flight
C5_Witness ==
  /\ state.error = NoCredentials
  /\ InflightTotal > 0
  /\ Len(out) = 1 /\ out[1].kind = "paint" /\ out[1].error = NoCredentials


IsResize(c) ==
  /\ c.sentinel /\ c.wellFormed /\ c.json.type = "object"
  /\ c.json.method = "resize" /\ c.json.params.truthy
IsRenderCall(e) == e.kind \in {"paint", "renderThrow"}

\* C6: a resize envelope sets cols (rows) to the given value when the field
\* is present and non-zero and keeps the prior value otherwise, calls render
\* exactly once, changes no ViewModel field and starts or ends no refresh.
C6_ResizeFrame ==
  [][(ev'.kind = "stdin" /\ IsResize(ev'.chunk)) =>
       LET p == ev'.chunk.json.params IN
       /\ termCols' = (IF p.hasCols /\ p.cols # 0 THEN p.cols ELSE termCols)
       /\ termRows' = (IF p.hasRows /\ p.rows # 0 THEN p.rows ELSE termRows)
       /\ Len(out') = 1 /\ IsRenderCall(out'[1])
       /\ UNCHANGED <<state, inflight, timerArmed, pc>>]_vars

\* C6 witness: a resize that gives cols and a zero rows, handled while a
\* refresh is in flight, has set cols, kept rows and repainted
C6_Witness ==
  /\ ev.kind = "stdin" /\ ev.chunk = Envelope("resize", ResizeParams(4, 0))
  /\ termCols = 4 /\ termRows = DefaultRows
  /\ InflightTotal > 0
  /\ Len(out) = 1 /\ out[1].kind = "paint" /\ out[1].width = 4

\* C7: a chunk with the sentinel prefix whose payload does not parse, or
\* whose method is not resize, changes nothing, paints nothing, sends
\* nothing and leaves the process running.
C7_BadEnvelopeIgnored ==
  [][(/\ ev'.kind = "stdin" /\ ev'.chunk.sentinel
      /\ (~ev'.chunk.wellFormed \/ ev'.chunk.json.type = "null"
            \/ ev'.chunk.json.method # "resize")) =>
       /\ out' = <<>>
       /\ UNCHANGED <<state, termCols, termRows, inflight, timerArmed, pc>>]_vars

\* C7 witness: an envelope of another method was handled during a refresh
C7_Witness ==
  /\ ev.kind = "stdin" /\ ev.chunk = Envelope("close", EmptyParams)
  /\ InflightTotal > 0 /\ pc = "running" /\ out = <<>>

\* C8: a chunk without the sentinel prefix is dispatched key by key, in
\* order: after the chunk "12" displayMode is normal.
C8_ChunkIsKeySequence ==
  (ev.kind = "stdin" /\ ev.chunk = KeyChunk(<<"1", "2">>)) =>
    state.config.displayMode = "normal"

ModeOfKey(k) == CASE k = "1" -> "compact" [] k = "2" -> "normal" [] k = "3" -> "detailed"

\* C9: key 1, 2 or 3 sets displayMode to compact, normal or detailed, calls
\* render once and changes nothing else of the ViewModel; an unrecognized
\* key changes nothing and writes nothing; neither starts or ends a refresh;
\* and no step of a refresh changes displayMode.
C9_DisplayModeKeys ==
  [][/\ \A k \in {"1", "2", "3"} : IsKey(ev', k) =>
          /\ state' = [state EXCEPT !.config.displayMode = ModeOfKey(k)]
          /\ Len(out') >= 1 /\ IsRenderCall(out'[1])
          /\ \A i \in DOMAIN out' : i > 1 => ~IsRenderCall(out'[i])
          /\ UNCHANGED <<inflight, termCols, termRows, timerArmed>>
     /\ IsKey(ev', "x") =>
          /\ out' = <<>>
          /\ UNCHANGED <<state, inflight, termCols, termRows, timerArmed, pc>>
     /\ (ev'.kind \in {"cred", "fetch", "timer"} \/ IsKey(ev', "r") \/ IsKey(ev', "R")) =>
          state'.config.displayMode = state.config.displayMode]_vars

\* C9 witness: key 2 was handled while a refresh was in flight
C9_Witness ==
  /\ IsKey(ev, "2") /\ InflightTotal > 0
  /\ state.config.displayMode = "normal" /\ state.loading
  /\ Len(out) = 1 /\ out[1].kind = "paint" /\ out[1].view = "loading"

\* C10: key q or Q stops the timer, writes the restore/clear sequence to
\* stdout and then exactly one close envelope to stderr; once the timer is
\* stopped no timer tick starts a refresh; and a write to stdout is never an
\* envelope, a write to stderr never paint or restore bytes.
C10_Quit ==
  [][/\ (IsKey(ev', "q") \/ IsKey(ev', "Q")) =>
          /\ ~timerArmed'
          /\ out' = <<RestoreEntry, Entry("stderr", "rpc", "close", NoLines, 0, 0, 0)>>
     /\ (pc = "running" /\ ~timerArmed) => (~timerArmed' /\ ev'.kind # "timer")
     /\ \A i \in DOMAIN out' :
          /\ out'[i].kind \in {"paint", "restore"} => out'[i].ch = "stdout"
          /\ out'[i].kind = "rpc" => out'[i].ch = "stderr"
          /\ out'[i].ch = "stdout" => out'[i].kind \in {"paint", "restore"}]_vars

\* C10 witness: Q was handled with the timer armed and a refresh in flight
C10_Witness ==
  /\ IsKey(ev, "Q") /\ ~timerArmed /\ InflightTotal > 0
  /\ Len(out) = 2 /\ out[1].ch = "stdout" /\ out[2].ch = "stderr"


\* the handler of q/Q has run: it alone disarms the timer of a running process
QuitHandled == pc = "running" /\ ~timerArmed
Teardowns == Signals \cup {"end"}
Count(seq, kind) == Cardinality({i \in DOMAIN seq : seq[i].kind = kind})

\* C11: whenever SIGTERM, SIGINT or the end of stdin ends the process, the
\* timer is cancelled and the restore/clear sequence has been written
\* exactly once over the whole run, an earlier q/Q included.
C11_TeardownRestoresOnce ==
  [][ev'.kind \in Teardowns =>
       /\ ~timerArmed'
       /\ Count(out', "restore") + (IF QuitHandled THEN 1 ELSE 0) = 1]_vars


RateTags == {"5h", "7d", "7d-S", "noData", "failedToFetch", "checkCredentials"}
IsRateTag(t) == t \in RateTags
Present(w, tag) == IF w # <<>> THEN <<tag>> ELSE <<>>

\* C12: the content render assembles: with an error, the title, the error
\* line and the hint line only; else when loading, the title and the
\* Loading line only; else the Rate Limits section lists exactly the windows
\* present in the snapshot, in the order five-hour, seven-day,
\* seven-day-secondary, lists nothing for an absent window, and has the 'no
\* data' line exactly when a snapshot is present with all three absent.
C12_ViewAssembly ==
  (pc = "viewed" /\ out[1].kind = "paint") =>
    LET lines == out[1].lines
        rate == SelectSeq(lines, IsRateTag)
    IN IF state.error # Null
       THEN lines = <<"blank", "title", "blank", "error", "blank", "hint", "blank">>
       ELSE IF state.loading
       THEN lines = <<"blank", "title", "blank", "loading", "blank">>
       ELSE IF state.data = NoData
       THEN rate = <<"failedToFetch", "checkCredentials">>
       ELSE LET d == state.data[1]
                windows == Present(d.five_hour, "5h") \o Present(d.seven_day, "7d")
                             \o Present(d.seven_day_sonnet, "7d-S")
            IN rate = (IF windows = <<>> THEN <<"noData">> ELSE windows)

\* C12 witness: a snapshot with the seven-day window alone was painted as
\* one rate-limit line
C12_Witness ==
  /\ pc = "viewed" /\ out[1].kind = "paint" /\ out[1].view = "data"
  /\ state.data = <<Snapshot(<<>>, Used, <<>>)>>
  /\ SelectSeq(out[1].lines, IsRateTag) = <<"7d">>


\* C13: a refresh that is in flight always comes back: the 5-second abort
\* can end the remote call at whatever stage it is in, waiting for the
\* response or reading its body (and is then handled like a network
\* failure).
C13_AbortCoversRemoteCall ==
  \A o \in Owners :
    (Running /\ inflight[o]["fetch"] + inflight[o]["body"] > 0) =>
      ENABLED (\E t \in Clock(state) : Abort(o, t))

\* C14: at every terminal size with cols >= 1 and rows >= 1 and for every
\* ViewModel a repaint completes without raising: it paints every row of a
\* box of width min(cols, 72) at startRow = max(1, floor((rows - height) / 2))
\* and startCol = max(1, floor((cols - width) / 2)).
C14_RepaintCompletes ==
  (pc = "viewed" /\ termCols >= 1 /\ termRows >= 1) =>
    LET e == out[1]
        width == Min(termCols, MaxBoxWidth)
        height == Len(ViewLines(state)) + 2
    IN /\ Len(out) = 1
       /\ e.kind = "paint"
       /\ e.lines = ViewLines(state)
       /\ e.width = width
       /\ e.startRow = Max(1, (termRows - height) \div 2)
       /\ e.startCol = Max(1, (termCols - width) \div 2)

\* C15: progressBar(pct, width), for integer pct in 0..100 and width >= 0,
\* is exactly width cells: the first round(pct / 100 * width) of them (halves
\* rounded away from zero) filled, in green (ok) for pct <= 50, yellow (warn)
\* for 50 < pct <= 80 and red (danger) above, the remaining ones empty.
RoundHalfAway(num, den) == (2 * num + den) \div (2 * den)

C15_ProgressBar ==
  pc = "bar" =>
    LET filled == RoundHalfAway(state.percent * state.width, 100)
        style == IF state.percent <= 50 THEN "green"
                 ELSE IF state.percent <= 80 THEN "yellow" ELSE "red"
    IN /\ Len(out) = state.width
       /\ \A i \in 1..Len(out) :
            out[i] = IF i <= filled THEN Cell("full", style) ELSE Cell("empty", "dim")

\* C16: formatDuration(ms), for integer ms >= 0 with h = floor(ms / 3600000)
\* and m = floor(ms / 60000) mod 60, is "{h}h{m}m" when h > 0 and m > 0,
\* "{h}h" when h > 0 and m = 0, and "{m}m" when h = 0; so 0 and 59000 give
\* "0m", 3600000 gives "1h" and 5400000 gives "1h30m".
C16_FormatDuration ==
  pc = "duration" =>
    LET h == state.ms \div 3600000
        m == (state.ms \div 60000) % 60
    IN /\ out = IF h > 0 /\ m > 0 THEN <<Part(h, "h"), Part(m, "m")>>
               ELSE IF h > 0 THEN <<Part(h, "h")>>
               ELSE <<Part(m, "m")>>
       /\ state.ms \in {0, 59000} => out = <<Part(0, "m")>>
       /\ state.ms = 3600000 => out = <<Part(1, "h")>>
       /\ state.ms = 5400000 => out = <<Part(1, "h"), Part(30, "m")>>

C16_Witness ==
  /\ pc = "duration"
  /\ state.ms = 3600000
  /\ out = <<Part(1, "h")>>

\* C17: once the first refresh has been started, loading = true in every
\* state in which a refresh is in flight (suspended at the credential lookup
\* or at the fetch) and loading = false in every state in which none is.
C17_LoadingTracksInFlight ==
  Running => (state.loading <=> InflightTotal > 0)

\* C18: whenever a refresh cycle completes its fetch step (the step that
\* updates metrics, lastRefreshAt and refreshCount), error = null in the
\* resulting state and the repaint it requests is the data view, never a
\* "No credentials found" error left by another cycle.
C18_FetchCompletionClearsError ==
  (ev.kind = "fetch" /\ Len(out) > 0) =>
    /\ state.error = Null
    /\ out[1].error # NoCredentials
    /\ out[1].kind = "paint" => out[1].view = "data"

\* C19: after a q/Q command has been handled, nothing more is written to
\* the painted-output stream other than a teardown restore/clear: no
\* completion of a refresh that was in flight, no later key and no resize
\* envelope repaints, and no new refresh is started.
C19_NothingAfterQuit ==
  [][QuitHandled =>
       /\ \A i \in DOMAIN out' : out'[i].ch = "stdout" => out'[i].kind = "restore"
       /\ \A i \in DOMAIN out' : out'[i].kind = "restore" => ev'.kind \in Teardowns
       /\ \A o \in Owners : inflight'[o]["cred"] <= inflight[o]["cred"]]_vars

\* refresh() calls of caller o that are suspended
InflightOf(o) == inflight[o]["cred"] + inflight[o]["fetch"] + inflight[o]["body"]

\* C20: startup ordering.  The ViewModel starts with loading = true and the
\* first thing painted is the loading view; the initial refresh is started
\* once and has run to completion before the timer is armed and before any
\* chunk from stdin is dispatched: no key, envelope or timer tick is
\* processed while it is in flight, and it never overlaps another refresh.
C20_StartupOrdering ==
  /\ [](/\ pc = "start" => (state.loading /\ out = <<>>)
        /\ pc \in {"start", "loadConfig"} => (InflightTotal = 0 /\ ~timerArmed)
        /\ pc = "initialRefresh" =>
             (InflightOf("main") = 1 /\ InflightTotal = 1 /\ ~timerArmed)
        /\ pc = "running" => InflightOf("main") = 0)
  /\ [][/\ pc = "start" =>
             \A i \in DOMAIN out' :
               out'[i].ch = "stdout" => (out'[i].kind = "paint" /\ out'[i].view = "loading")
        /\ InflightOf("main") < InflightOf("main")' =>
             (pc = "loadConfig" /\ pc' = "initialRefresh" /\ ev'.kind = "config")
        /\ (~timerArmed /\ timerArmed') =>
             (pc = "initialRefresh" /\ pc' = "running" /\ InflightTotal' = 0)
        /\ ev'.kind \in {"stdin", "timer"} =>
             (pc = "running" /\ InflightOf("main") = 0)
        /\ (pc # "running" /\ pc' = "running") =>
             (pc = "initialRefresh" /\ ev'.owner = "main" /\ ev'.kind \in Stages)]_vars

\* C20 witness: the initial refresh has completed, the timer is armed, and a
\* key has been dispatched and has started a second refresh
C20_Witness ==
  /\ pc = "running" /\ timerArmed
  /\ ev.kind = "stdin" /\ ev.owner = "key"
  /\ state.refreshCount = 1
  /\ InflightOf("key") = 1 /\ InflightOf("main") = 0

====
